---- MODULE Spec2Model ----
(***************************************************************************)
(* A model of import/src/set-import.ts: the set importer that turns the    *)
(* curated sets and the usage statistics of every generation into the      *)
(* calculator's set files.                                                 *)
(*                                                                         *)
(* Conventions.                                                            *)
(*  - A JavaScript value that may be undefined/null is a sequence of at     *)
(*    most one element: <<>> is undefined, <<v>> is v.                      *)
(*  - A format identifier is the sequence of its characters, so that        *)
(*    includes() and the regular expression test are computed.             *)
(*  - A format display name and a set label are sequences of words.         *)
(*  - An object used as a map is the sequence of its [key, w] entries in    *)
(*    enumeration order.                                                    *)
(*  - Usage weights and thresholds are in hundredths (0.05 is 5).           *)
(***************************************************************************)
EXTENDS Integers, Sequences, FiniteSets, TLC

VARIABLES
    pc,          \* position of the process / of the function under study
    arg,         \* input of the pure function under study
    ret,         \* its result
    genNum,      \* batch driver: generation being imported (i + 1)
    written,     \* batch driver: generations whose artifact was written
    dexSets,     \* importGen: curated entries read so far
    sets,        \* importGen: sets of the current (specie, format) entry
    cur,         \* importGen: current loop context
    calcSets,    \* importGen: specie -> label -> CalcSet
    formatIDs,   \* importGen: Set<ID>, in insertion order
    statsIgnore, \* importGen: specie -> set of format ids
    todo,        \* importGen: formats of formatIDs still to visit
    stats,       \* importGen: the statistics page being processed
    hist         \* history of the run (what the engine said, who wrote what)

vars == <<pc, arg, ret, genNum, written, dexSets, sets, cur, calcSets,
          formatIDs, statsIgnore, todo, stats, hist>>

-----------------------------------------------------------------------------
(* Bounds of the inputs *)

MaxKeys == 3
MaxWeight == 2

-----------------------------------------------------------------------------
(* JavaScript helpers *)

Undefined == <<>>

OrElse(opt, d) == IF opt = Undefined THEN d ELSE opt[1]

Range(s) == {s[i] : i \in 1..Len(s)}

\* String.prototype.includes / RegExp.test of a literal, on character sequences
Contains(s, pat) ==
    \E i \in 0..(Len(s) - Len(pat)) : SubSeq(s, i + 1, i + Len(pat)) = pat

\* Array.prototype.indexOf, 1-based; 0 when absent (JavaScript's -1)
IndexOf(s, x) ==
    IF \E i \in 1..Len(s) : s[i] = x
    THEN CHOOSE i \in 1..Len(s) : s[i] = x /\ \A j \in 1..(i - 1) : s[j] # x
    ELSE 0

-----------------------------------------------------------------------------
(* first *)

\* A list-or-scalar field: kind "absent", "scalar" (v = <<x>>) or "array".
Absent == [kind |-> "absent", v |-> <<>>]
Scalar(x) == [kind |-> "scalar", v |-> <<x>>]
Array(xs) == [kind |-> "array", v |-> xs]

first(f) ==
    IF f.kind = "array"
    THEN (IF Len(f.v) > 0 THEN <<f.v[1]>> ELSE Undefined)
    ELSE f.v

-----------------------------------------------------------------------------
(* top *)

Lookup(weighted, key) ==
    weighted[CHOOSE i \in 1..Len(weighted) : weighted[i].key = key].w

\* !max : undefined and the empty string are both falsy
Falsy(max) == max = Undefined \/ max[1] = ""

RECURSIVE Top1Loop(_, _, _)
Top1Loop(weighted, i, max) ==
    IF i > Len(weighted) THEN max
    ELSE LET key == weighted[i].key
         IN  IF Falsy(max) \/ Lookup(weighted, max[1]) < Lookup(weighted, key)
             THEN Top1Loop(weighted, i + 1, <<key>>)
             ELSE Top1Loop(weighted, i + 1, max)

\* Array.prototype.sort((a, b) => b[1] - a[1]) : stable, descending weight
RECURSIVE InsertDesc(_, _)
InsertDesc(sorted, e) ==
    IF sorted = <<>> THEN <<e>>
    ELSE IF sorted[1].w < e.w THEN <<e>> \o sorted
    ELSE <<sorted[1]>> \o InsertDesc(Tail(sorted), e)

RECURSIVE SortDesc(_)
SortDesc(entries) ==
    IF entries = <<>> THEN <<>>
    ELSE InsertDesc(SortDesc(SubSeq(entries, 1, Len(entries) - 1)),
                    entries[Len(entries)])

top1(weighted) == Top1Loop(weighted, 1, Undefined)

topN(weighted, n) ==
    LET sorted == SortDesc(weighted)
        m == IF n < Len(sorted) THEN n ELSE Len(sorted)
    IN  [i \in 1..m |-> sorted[i].key]

top(weighted, n) ==
    IF n = 0 THEN [kind |-> "undefined", v |-> <<>>]
    ELSE IF n = 1 THEN [kind |-> "string", v |-> top1(weighted)]
    ELSE [kind |-> "array", v |-> topN(weighted, n)]

-----------------------------------------------------------------------------
(* Stat tables *)

StatIDs == {"hp", "atk", "def", "spa", "spd", "spe"}

\* Dex.stats.ids()
StatOrder == <<"hp", "atk", "def", "spa", "spd", "spe">>

EmptyTable == [s \in {} |-> 0]

\* TeamValidator.fillStats(stats, fillNum); null is the empty table
fillStats(table, fillNum) ==
    [s \in StatIDs |-> IF s \in DOMAIN table THEN table[s] ELSE fillNum]

CalcKey == [hp |-> "hp", atk |-> "at", def |-> "df",
            spa |-> "sa", spd |-> "sd", spe |-> "sp"]

toCalcStatsTableKeepAll(table, ignoreVal) ==
    [k \in {CalcKey[s] : s \in DOMAIN table} |->
        table[CHOOSE s \in DOMAIN table : CalcKey[s] = k]]

\* The compact table: the entries equal to ignoreVal are left out
toCalcStatsTable(table, ignoreVal) ==
    LET keep == {s \in DOMAIN table : table[s] # ignoreVal}
    IN  [k \in {CalcKey[s] : s \in keep} |->
            table[CHOOSE s \in keep : CalcKey[s] = k]]

\* Object.assign(target, source)
Assign(target, source) ==
    [s \in DOMAIN target \cup DOMAIN source |->
        IF s \in DOMAIN source THEN source[s] ELSE target[s]]

-----------------------------------------------------------------------------
(* getUsageThreshold *)

Infinity == 1000000

UBER == <<"u", "b", "e", "r">>
ANYTHINGGOES == <<"a", "n", "y", "t", "h", "i", "n", "g", "g", "o", "e", "s">>
DOUBLESOU == <<"d", "o", "u", "b", "l", "e", "s", "o", "u">>

getUsageThresholdNoFloor(formatID, count) ==
    IF count < 400 THEN 5
    ELSE IF Contains(formatID, UBER) \/ Contains(formatID, ANYTHINGGOES)
            \/ Contains(formatID, DOUBLESOU)
         THEN 3
         ELSE 1

\* Thresholds in hundredths: 0.05, 0.03, 0.01
getUsageThreshold(formatID, count) ==
    IF count < 100 THEN Infinity
    ELSE IF count < 400 THEN 5
    ELSE IF Contains(formatID, UBER) \/ Contains(formatID, ANYTHINGGOES)
            \/ Contains(formatID, DOUBLESOU)
         THEN 3
         ELSE 1

-----------------------------------------------------------------------------
(* expectedHP *)

expectedHPWrongDivisor(ivs) ==
    LET f == fillStats(ivs, 31)
    IN  2 * ((f["atk"] % 2) * 8 + (f["def"] % 2) * 4
             + (f["spe"] % 2) * 2 + (f["spa"] % 2))

expectedHP(ivs) ==
    LET f == fillStats(ivs, 31)
        atkDV == f["atk"] \div 2
        defDV == f["def"] \div 2
        speDV == f["spe"] \div 2
        spcDV == f["spa"] \div 2
    IN  2 * ((atkDV % 2) * 8 + (defDV % 2) * 4 + (speDV % 2) * 2 + (spcDV % 2))

-----------------------------------------------------------------------------
(* getLevel *)

LC == <<"l", "c">>
VGC == <<"v", "g", "c">>
BATTLESTADIUM == <<"b", "a", "t", "t", "l", "e", "s", "t", "a", "d", "i", "u", "m">>

getLevel(formatID) ==
    IF Contains(formatID, LC) THEN 5
    ELSE IF Contains(formatID, VGC) \/ Contains(formatID, BATTLESTADIUM) THEN 50
    ELSE 100

-----------------------------------------------------------------------------
(* Reference database (@pkmn/dex, @pkmn/data): the entries the inputs use *)

LastGen == 9

Digits == <<"1", "2", "3", "4", "5", "6", "7", "8", "9">>
GenTag == <<"[Gen 1]", "[Gen 2]", "[Gen 3]", "[Gen 4]", "[Gen 5]",
            "[Gen 6]", "[Gen 7]", "[Gen 8]", "[Gen 9]">>

OU == <<"o", "u">>
UBERS == <<"u", "b", "e", "r", "s">>
CAP == <<"c", "a", "p">>
ALMOSTANYABILITY ==
    <<"a", "l", "m", "o", "s", "t", "a", "n", "y", "a", "b", "i", "l", "i", "t", "y">>

\* `gen${gen.num}${formatID}`
FormatID(num, suffix) == <<"g", "e", "n", Digits[num]>> \o suffix

\* The formats Dex.formats knows: OU and Ubers in every generation, Doubles
\* OU from generation 4, LC up to generation 8.
FormatsDB ==
    {[id |-> FormatID(g, OU), name |-> <<GenTag[g], "OU">>, exists |-> TRUE,
      megaRayClause |-> g = 6, bansMray |-> FALSE] : g \in 1..LastGen}
    \cup
    {[id |-> FormatID(g, UBERS), name |-> <<GenTag[g], "Ubers">>, exists |-> TRUE,
      megaRayClause |-> FALSE, bansMray |-> FALSE] : g \in 1..LastGen}
    \cup
    {[id |-> FormatID(g, DOUBLESOU), name |-> <<GenTag[g], "Doubles", "OU">>,
      exists |-> TRUE, megaRayClause |-> FALSE, bansMray |-> TRUE] : g \in 4..LastGen}
    \cup
    {[id |-> FormatID(g, LC), name |-> <<GenTag[g], "LC">>, exists |-> TRUE,
      megaRayClause |-> FALSE, bansMray |-> TRUE] : g \in 1..8}

\* Dex.formats.get(formatID): an unknown id gives a format that does not exist
FormatsGet(formatID) ==
    IF \E f \in FormatsDB : f.id = formatID
    THEN CHOOSE f \in FormatsDB : f.id = formatID
    ELSE [id |-> formatID, name |-> <<>>, exists |-> FALSE,
          megaRayClause |-> FALSE, bansMray |-> FALSE]

UNSUPPORTED ==
    (FormatID(9, ALMOSTANYABILITY) :> <<"[Gen 9]", "Almost", "Any", "Ability">>)
    @@ (FormatID(9, LC) :> <<"[Gen 9]", "LC">>)

\* UNSUPPORTED[formatID] ? null : Dex.formats.get(formatID)
FormatOf(formatID) ==
    IF formatID \in DOMAIN UNSUPPORTED THEN Undefined ELSE <<FormatsGet(formatID)>>

SkipsFormatNever(format) == FALSE

\* if (format && !format.exists) continue
SkipsFormat(format) == format # Undefined /\ ~format[1].exists

\* format?.name ?? UNSUPPORTED[formatID]
FormatNameOf(formatID) ==
    IF formatID \in DOMAIN UNSUPPORTED THEN UNSUPPORTED[formatID]
    ELSE FormatsGet(formatID).name

\* formatName.slice(formatName.indexOf(']') + 2): the words after the tag
StripTag(formatName) ==
    IF \E i \in 1..Len(formatName) : formatName[i] \in Range(GenTag)
    THEN LET tag == CHOOSE i \in 1..Len(formatName) :
                        /\ formatName[i] \in Range(GenTag)
                        /\ \A j \in 1..(i - 1) : formatName[j] \notin Range(GenTag)
         IN  SubSeq(formatName, tag + 1, Len(formatName))
    ELSE formatName

\* `${...} ${name}`
SetName(formatName, name) == StripTag(formatName) \o <<name>>

SpeciesTable ==
    ("Landorus-Therian" :> [ab0 |-> "Intimidate", isMega |-> FALSE, baseSpecies |-> "Landorus"])
    @@ ("Keldeo" :> [ab0 |-> "Justified", isMega |-> FALSE, baseSpecies |-> "Keldeo"])
    @@ ("Keldeo-Resolute" :> [ab0 |-> "Justified", isMega |-> FALSE, baseSpecies |-> "Keldeo"])
    @@ ("Charizard" :> [ab0 |-> "Blaze", isMega |-> FALSE, baseSpecies |-> "Charizard"])
    @@ ("Charizard-Mega-X" :> [ab0 |-> "Tough Claws", isMega |-> TRUE, baseSpecies |-> "Charizard"])
    @@ ("Arceus" :> [ab0 |-> "Multitype", isMega |-> FALSE, baseSpecies |-> "Arceus"])
    @@ ("Zacian-Crowned" :> [ab0 |-> "Intrepid Sword", isMega |-> FALSE, baseSpecies |-> "Zacian"])
    @@ ("Zacian" :> [ab0 |-> "Intrepid Sword", isMega |-> FALSE, baseSpecies |-> "Zacian"])
    @@ ("Rayquaza" :> [ab0 |-> "Air Lock", isMega |-> FALSE, baseSpecies |-> "Rayquaza"])
    @@ ("Rayquaza-Mega" :> [ab0 |-> "Delta Stream", isMega |-> TRUE, baseSpecies |-> "Rayquaza"])
    @@ ("Zygarde" :> [ab0 |-> "Aura Break", isMega |-> FALSE, baseSpecies |-> "Zygarde"])

\* gen.species.get(specieName) ?? ModdedDex.forGen(gen.num).species.get(specieName)
getSpecie(specieName) ==
    [name |-> specieName,
     abilities0 |-> SpeciesTable[specieName].ab0,
     isMega |-> SpeciesTable[specieName].isMega,
     baseSpecies |-> SpeciesTable[specieName].baseSpecies]

\* forme.includes('-Mega'), over the names of the database
IncludesMega(forme) == forme \in {"Charizard-Mega-X", "Rayquaza-Mega"}

\* gen.items.get(pset.item) ?? ModdedDex.forGen(gen.num).items.get(pset.item)
getItem(item) ==
    IF item = "Charizardite X"
    THEN [name |-> item, megaEvolves |-> "Charizard", megaStone |-> "Charizard-Mega-X"]
    ELSE [name |-> item, megaEvolves |-> "", megaStone |-> ""]

-----------------------------------------------------------------------------
(* Hidden Power *)

\* m.startsWith('Hidden Power') and hp.slice(13), over the moves of the inputs
HiddenPowerSuffix ==
    ("Hidden Power" :> "") @@ ("Hidden Power Ice" :> "Ice")
    @@ ("Hidden Power Fire" :> "Fire") @@ ("Hidden Power Dark" :> "Dark")

StartsWithHiddenPower(m) == m \in DOMAIN HiddenPowerSuffix

hpTypes == <<"Fighting", "Flying", "Poison", "Ground", "Rock", "Bug", "Ghost",
             "Steel", "Fire", "Water", "Grass", "Electric", "Psychic", "Ice",
             "Dragon", "Dark">>

\* dex.getHiddenPower(ivs).type
getHiddenPowerType(num, ivs) ==
    IF num <= 2
    THEN hpTypes[4 * ((ivs["atk"] \div 2) % 4) + ((ivs["def"] \div 2) % 4) + 1]
    ELSE LET x == (ivs["hp"] % 2) + 2 * (ivs["atk"] % 2) + 4 * (ivs["def"] % 2)
                  + 8 * (ivs["spe"] % 2) + 16 * (ivs["spa"] % 2)
                  + 32 * (ivs["spd"] % 2)
         IN  hpTypes[((x * 15) \div 63) + 1]

\* dex.types.get(type).HPdvs
HPdvs(type) ==
    IF type = "Ice" THEN ("def" :> 13)
    ELSE IF type = "Fire" THEN ("atk" :> 14) @@ ("def" :> 12)
    ELSE EmptyTable

\* dex.types.get(type).HPivs
HPivs(type) ==
    IF type = "Ice" THEN ("atk" :> 30) @@ ("def" :> 30)
    ELSE IF type = "Fire" THEN ("atk" :> 30) @@ ("spa" :> 30) @@ ("spe" :> 30)
    ELSE EmptyTable

\* The era-2 branch: the doubled template, then the derived HP entry
era2ivs(ivs, type) ==
    LET dvs == [s \in DOMAIN HPdvs(type) |-> HPdvs(type)[s] * 2]
        assigned == Assign(ivs, dvs)
    IN  [assigned EXCEPT !["hp"] = expectedHP(assigned)]

\* The reconciliation both record builders end with
reconcileHiddenPower(num, pset) ==
    LET hps == SelectSeq(pset.moves, StartsWithHiddenPower)
    IN  IF hps = <<>> THEN pset
        ELSE LET type == HiddenPowerSuffix[hps[1]]
             IN  IF type # "" /\ getHiddenPowerType(num, pset.ivs) # type
                 THEN IF num >= 7 /\ pset.level = 100
                      THEN [pset EXCEPT !.hpType = <<type>>]
                      ELSE IF num = 2
                      THEN [pset EXCEPT !.ivs = era2ivs(pset.ivs, type)]
                      ELSE [pset EXCEPT !.ivs = Assign(pset.ivs, HPivs(type))]
                 ELSE pset

-----------------------------------------------------------------------------
(* dexToPset, usageToPset, psetToCalcSet *)

dexToPset(num, specie, dset) ==
    reconcileHiddenPower(num,
        [name |-> "",
         species |-> specie.name,
         item |-> OrElse(first(dset.item), ""),
         ability |-> OrElse(first(dset.ability), specie.abilities0),
         moves |-> [i \in 1..Len(dset.moves) |-> first(dset.moves[i])[1]],
         nature |-> OrElse(first(dset.nature), ""),
         gender |-> "",
         evs |-> fillStats(OrElse(first(dset.evs), EmptyTable),
                           IF num < 3 THEN 252 ELSE 0),
         ivs |-> fillStats(EmptyTable, IF num = 2 THEN 30 ELSE 31),
         level |-> OrElse(first(dset.level), 100),
         teraType |-> first(dset.teratypes),
         hpType |-> Undefined,
         shiny |-> FALSE])

\* spread.split(':') and revs.split('/'), over the spreads of the inputs
SplitSpread ==
    ("Jolly:0/252/0/0/4/252" :> [nature |-> "Jolly", revs |-> <<0, 252, 0, 0, 4, 252>>])
    @@ ("Bold:252/0/252/0/4/0" :> [nature |-> "Bold", revs |-> <<252, 0, 252, 0, 4, 0>>])
    @@ ("Serious:0/0/0/0/0/0" :> [nature |-> "Serious", revs |-> <<0, 0, 0, 0, 0, 0>>])

fromSpread(spread) ==
    LET parts == SplitSpread[spread]
        kept == {i \in 1..Len(parts.revs) : parts.revs[i] # 0}
    IN  [nature |-> parts.nature,
         evs |-> [s \in {StatOrder[i] : i \in kept} |->
                     parts.revs[CHOOSE i \in kept : StatOrder[i] = s]]]

NotNothing(m) == m # "Nothing"

usageToPset(num, formatID, specieName, uset) ==
    LET spread == fromSpread(top(uset.spreads, 1).v[1])
        item == top(uset.items, 1).v
        ability == top(uset.abilities, 1).v
    IN  reconcileHiddenPower(num,
        [name |-> "",
         species |-> specieName,
         item |-> IF Falsy(item) \/ item = <<"Nothing">> THEN "" ELSE item[1],
         ability |-> IF Falsy(ability) \/ ability = <<"Nothing">> THEN "" ELSE ability[1],
         moves |-> SelectSeq(top(uset.moves, 4).v, NotNothing),
         nature |-> spread.nature,
         gender |-> "",
         evs |-> fillStats(spread.evs, IF num < 3 THEN 252 ELSE 0),
         ivs |-> fillStats(EmptyTable, IF num = 2 THEN 30 ELSE 31),
         level |-> getLevel(formatID),
         teraType |-> Undefined,
         hpType |-> Undefined,
         shiny |-> FALSE])

psetToCalcSet(num, pset) ==
    [level |-> pset.level,
     ability |-> pset.ability,
     item |-> pset.item,
     nature |-> pset.nature,
     teraType |-> pset.teraType,
     ivs |-> toCalcStatsTable(pset.ivs, IF num = 2 THEN 30 ELSE 31),
     evs |-> toCalcStatsTable(pset.evs, IF num > 2 THEN 0 ELSE 252),
     moves |-> pset.moves]

-----------------------------------------------------------------------------
(* The legality engine (TeamValidator.validateSet), an opaque collaborator: *)
(* what it answers and what it writes to the set is an input.               *)

MUST_BE_SHINY == "must be shiny"
ZERO_EVS == "has exactly 0 EVs - did you forget to EV it?"
IS_BANNED == " is banned."

\* A violation message is the sequence of its fragments; invalid[0].includes(..)
Includes(msg, fragment) == fragment \in Range(msg)

\* `${pset.name} is banned.`
BannedMessage(name) == (IF name = "" THEN <<>> ELSE <<name>>) \o <<IS_BANNED>>

\* One answer of the engine: the violations it reports (kind) and the fields
\* it rewrites on the way (names: name := base species; mega: the ability;
\* renames: the species to its base, a crowned signature move to 'ironhead').
Answer(kind, names, mega, renames) ==
    [kind |-> kind, names |-> names, mega |-> mega, renames |-> renames]

EngineAnswers ==
    { Answer("valid", FALSE, FALSE, FALSE),
      Answer("valid", TRUE, TRUE, TRUE),
      Answer("shiny", FALSE, FALSE, FALSE),
      Answer("evs", FALSE, FALSE, FALSE),
      Answer("banned", TRUE, FALSE, FALSE),
      Answer("shiny+evs", FALSE, FALSE, FALSE),
      Answer("other", FALSE, TRUE, FALSE) }

\* What the engine answers on its first, second and third invocation: a call
\* of validatePSet that invokes it n times meets a script of n answers.
EngineScripts == UNION { [1..n -> EngineAnswers] : n \in 1..3 }

\* The answer to the n-th invocation (none when the script is shorter)
AnswerAt(script, n) ==
    IF n <= Len(script) THEN script[n] ELSE Answer("none", FALSE, FALSE, FALSE)

\* The set after the engine's side effects
Written(pset, answer) ==
    LET base == SpeciesTable[pset.species].baseSpecies
    IN  [pset EXCEPT
           !.name = IF answer.names /\ @ = "" THEN base ELSE @,
           !.ability = IF answer.mega THEN "Tough Claws" ELSE @,
           !.species = IF answer.renames THEN base ELSE @,
           !.moves = IF answer.renames
                     THEN [i \in 1..Len(@) |->
                             IF @[i] \in {"Behemoth Blade", "Behemoth Bash"}
                             THEN "ironhead" ELSE @[i]]
                     ELSE @]

\* The violations of an answer: <<>> is null (valid)
Violations(pset, answer) ==
    LET who == Written(pset, answer).name
        shown == IF who = "" THEN pset.species ELSE who
    IN  CASE answer.kind = "valid" -> <<>>
          [] answer.kind = "shiny" -> << <<shown, MUST_BE_SHINY>> >>
          [] answer.kind = "evs" -> << <<shown, ZERO_EVS>> >>
          [] answer.kind = "banned" -> << <<shown, IS_BANNED>> >>
          [] answer.kind = "shiny+evs" ->
                << <<shown, MUST_BE_SHINY>>, <<shown, ZERO_EVS>> >>
          [] OTHER -> << <<shown, " is not obtainable.">> >>

-----------------------------------------------------------------------------
(* validatePSet *)

crowned == ("Zacian-Crowned" :> "Behemoth Blade")
           @@ ("Zamazenta-Crowned" :> "Behemoth Bash")

GEN4UBERS == FormatID(4, UBERS)

\* invalid.length === 1 && invalid[0].includes('must be shiny')
IsShinyViolation(invalid) ==
    Len(invalid) = 1 /\ Includes(invalid[1], MUST_BE_SHINY)

IsZeroEvsViolationAnyLength(invalid) ==
    \E i \in 1..Len(invalid) : Includes(invalid[i], ZERO_EVS)

\* invalid.length === 1 && invalid[0].includes('has exactly 0 EVs - ...')
IsZeroEvsViolation(invalid) ==
    Len(invalid) = 1 /\ Includes(invalid[1], ZERO_EVS)

\* The result: the boolean, the set as the call leaves it, and what happened
\* (the engine's answers in order, the corrections applied in order).
Verdict(ok, pset, answers, corrections) ==
    [ok |-> ok, pset |-> pset, answers |-> answers, corrections |-> corrections]

\* The Arceus override: format.id === 'gen4ubers' &&
\* invalid.includes(`${pset.name} is banned.`)
IsAllowedBanAnyFormat(format, pset, invalid) ==
    BannedMessage(pset.name) \in Range(invalid)

IsAllowedBan(format, pset, invalid) ==
    format.id = GEN4UBERS /\ BannedMessage(pset.name) \in Range(invalid)

\* validator.validateSet(pset, {}): the violations, and the set as rewritten
validateSet(pset, answer) ==
    [pset |-> Written(pset, answer), invalid |-> Violations(pset, answer)]

\* Lines 268-275: the override, or the rejection
finalCheck(format, pset, invalid, answers, corrections) ==
    Verdict(IsAllowedBan(format, pset, invalid), pset, answers, corrections)

\* Lines 265-266: after the retry with hp = 1
evsRetried(format, engine, answers, corrections) ==
    IF engine.invalid = <<>>
    THEN Verdict(TRUE, engine.pset, Append(answers, engine.invalid), corrections)
    ELSE finalCheck(format, engine.pset, engine.invalid,
                    Append(answers, engine.invalid), corrections)

\* Lines 263-264: the 0-EV correction, tried on the latest answer
evsCheck(format, script, pset, invalid, answers, corrections) ==
    IF IsZeroEvsViolation(invalid)
    THEN evsRetried(format,
                    validateSet([pset EXCEPT !.evs["hp"] = 1],
                                AnswerAt(script, Len(answers) + 1)),
                    answers, Append(corrections, "evs"))
    ELSE finalCheck(format, pset, invalid, answers, corrections)

\* Lines 260-261: after the retry with shiny = true
shinyRetried(format, script, engine, invalid1) ==
    IF engine.invalid = <<>>
    THEN Verdict(TRUE, engine.pset, <<invalid1, engine.invalid>>, <<"shiny">>)
    ELSE evsCheck(format, script, engine.pset, engine.invalid,
                  <<invalid1, engine.invalid>>, <<"shiny">>)

\* Lines 256-259: valid at once, or the shiny correction
afterFirst(format, script, pset, invalid) ==
    IF invalid = <<>> THEN Verdict(TRUE, pset, <<invalid>>, <<>>)
    ELSE IF IsShinyViolation(invalid)
    THEN shinyRetried(format, script,
                      validateSet([pset EXCEPT !.shiny = TRUE], AnswerAt(script, 2)),
                      invalid)
    ELSE evsCheck(format, script, pset, invalid, <<invalid>>, <<>>)

\* Lines 247-255: the crowned move is put back, the ability restored
restoreFirst(species, ability, pset) ==
    [(IF species \in DOMAIN crowned /\ IndexOf(pset.moves, "ironhead") > 0
      THEN [pset EXCEPT !.moves[IndexOf(pset.moves, "ironhead")] = crowned[species]]
      ELSE pset)
     EXCEPT !.ability = ability]

firstCall(format, script, species, ability, engine) ==
    afterFirst(format, script, restoreFirst(species, ability, engine.pset),
               engine.invalid)

validatePSet(format, pset, script) ==
    firstCall(format, script, pset.species, pset.ability,
              validateSet(pset, AnswerAt(script, 1)))

\* The engine is invoked as many times as the script has answers
Asked(verdict, script) == Len(verdict.answers) = Len(script)

\* The scripts a call can meet. How often the engine is invoked depends on its
\* answers alone, so one set decides it for all.
AskedScripts ==
    LET format == FormatsGet(FormatID(8, OU))
        pset == dexToPset(8, getSpecie("Arceus"),
                    [moves |-> <<Scalar("Earthquake")>>, level |-> Absent,
                     ability |-> Absent, item |-> Absent, nature |-> Absent,
                     teratypes |-> Absent, evs |-> Absent, ivs |-> Absent])
    IN  {s \in EngineScripts : Asked(validatePSet(format, pset, s), s)}

-----------------------------------------------------------------------------
(* similarFormes *)

NATIONALDEX == <<"n", "a", "t", "i", "o", "n", "a", "l", "d", "e", "x">>
BALANCEDHACKMONS ==
    <<"b", "a", "l", "a", "n", "c", "e", "d", "h", "a", "c", "k", "m", "o", "n", "s">>
BH == <<"b", "h">>

\* +/^gen(\d+)/.exec(format.id)![1], for the one-digit generations
GenNumOf(formatID) == CHOOSE g \in 1..LastGen : Digits[g] = formatID[4]

\* format is <<>> (null) or <<the format>>
similarFormes(pset, format, specie, item) ==
    LET f == format[1]
        clear == ~f.megaRayClause /\ ~f.bansMray
        isMrayAllowed ==
            IF GenNumOf(f.id) = 6 \/ GenNumOf(f.id) = 7 THEN clear
            ELSE Contains(f.id, NATIONALDEX) /\ clear
    IN  IF format # <<>> /\ pset.species = "Rayquaza"
           /\ "Dragon Ascent" \in Range(pset.moves) /\ isMrayAllowed
        THEN <<"Rayquaza-Mega">>
        ELSE IF pset.species = "Rayquaza-Mega" /\ format # <<>>
                /\ (~Contains(f.id, BALANCEDHACKMONS) \/ Contains(f.id, BH))
        THEN <<"Rayquaza">>
        ELSE IF pset.ability = "Power Construct" THEN <<"Zygarde-Complete">>
        ELSE IF item.megaEvolves # "" /\ item.megaStone # ""
                /\ specie.name = item.megaEvolves
        THEN <<IF specie.isMega THEN specie.baseSpecies ELSE item.megaStone>>
        ELSE CASE specie.name = "Aegislash" ->
                    <<"Aegislash-Blade", "Aegislash-Shield", "Aegislash-Both">>
               [] specie.name = "Darmanitan-Galar" -> <<"Darmanitan-Galar-Zen">>
               [] specie.name = "Keldeo" -> <<"Keldeo-Resolute">>
               [] specie.name = "Minior" -> <<"Minior-Meteor">>
               [] specie.name = "Palafin" -> <<"Palafin-Hero">>
               [] specie.name = "Rayquaza-Mega" -> <<"Rayquaza">>
               \* the target is spelled with U+2019, written _ here
               [] specie.name = "Sirfetch'd" -> <<"Sirfetch_d">>
               [] specie.name = "Wishiwashi" -> <<"Wishiwashi-School">>
               [] OTHER -> <<>>

-----------------------------------------------------------------------------
(* The pure functions under study: the input is drawn, the function applied *)

EmptyMap == [x \in {} |-> 0]

\* The importer's variables while a single function is studied
Idle ==
    /\ genNum = 0 /\ written = {} /\ dexSets = <<>> /\ sets = <<>>
    /\ cur = <<>> /\ calcSets = EmptyMap /\ formatIDs = <<>>
    /\ statsIgnore = EmptyMap /\ todo = <<>> /\ stats = <<>> /\ hist = <<>>

importerVars == <<genNum, written, dexSets, sets, cur, calcSets, formatIDs,
                  statsIgnore, todo, stats, hist>>

\* ---- top ----

Keys == {"", "Nothing", "Choice Scarf", "Leftovers"}

\* The maps of at most MaxKeys distinct keys, in enumeration order
WeightedMaps ==
    UNION { { m \in [1..n -> [key : Keys, w : 0..MaxWeight]] :
                \A i, j \in 1..n : i # j => m[i].key # m[j].key }
            : n \in 0..MaxKeys }

InitTop == pc = "top" /\ arg \in WeightedMaps /\ ret = <<>> /\ Idle

\* top(weighted), top(weighted, 1)
Top1 ==
    /\ pc = "top"
    /\ ret' = [n |-> 1, out |-> top(arg, 1)]
    /\ pc' = "topped"
    /\ UNCHANGED <<arg, importerVars>>

\* top(weighted, 0), top(weighted, n) with n > 1
TopN ==
    /\ pc = "top"
    /\ \E n \in {0, 2, 4} : ret' = [n |-> n, out |-> top(arg, n)]
    /\ pc' = "topped"
    /\ UNCHANGED <<arg, importerVars>>

NextTop == Top1 \/ TopN

SpecTop == InitTop /\ [][NextTop]_vars

\* ---- expectedHP and the era-2 branch of dexToPset ----

IvValues == {0, 1, 2, 3, 28, 29, 30, 31}

PartialIvs ==
    UNION { [d -> IvValues] : d \in SUBSET {"atk", "def", "spe", "spa"} }

HiddenPowerSets ==
    { [moves |-> <<Scalar(m)>>, level |-> Absent, ability |-> Absent,
       item |-> Absent, nature |-> Absent, teratypes |-> Absent,
       evs |-> Absent, ivs |-> Absent]
      : m \in {"Hidden Power Ice", "Hidden Power Fire", "Hidden Power Dark",
               "Hidden Power", "Earthquake"} }

InitHP ==
    /\ pc = "hp"
    /\ arg \in [ivs : PartialIvs, dset : HiddenPowerSets]
    /\ ret = <<>>
    /\ Idle

ExpectedHP ==
    /\ pc = "hp"
    /\ ret' = [fn |-> "expectedHP", hp |-> expectedHP(arg.ivs)]
    /\ pc' = "hpDone"
    /\ UNCHANGED <<arg, importerVars>>

\* dexToPset in generation 2, whose reconciliation calls expectedHP
DexToPsetEra2 ==
    /\ pc = "hp"
    /\ ret' = [fn |-> "dexToPset",
               pset |-> dexToPset(2, getSpecie("Charizard"), arg.dset)]
    /\ pc' = "hpDone"
    /\ UNCHANGED <<arg, importerVars>>

NextHP == ExpectedHP \/ DexToPsetEra2

SpecHP == InitHP /\ [][NextHP]_vars

\* ---- validatePSet ----

PlainSet(moves, item) ==
    [moves |-> [i \in 1..Len(moves) |-> Scalar(moves[i])], level |-> Absent,
     ability |-> Absent, item |-> item, nature |-> Absent,
     teratypes |-> Absent, evs |-> Absent, ivs |-> Absent]

ValidateInputs ==
    { [format |-> FormatsGet(FormatID(g, UBERS)),
       pset |-> dexToPset(g, getSpecie(sp), PlainSet(<<mv>>, Absent)),
       script |-> script]
      : g \in {4, 8},
        sp \in {"Arceus", "Zacian-Crowned"},
        mv \in {"Behemoth Blade", "Earthquake"},
        script \in AskedScripts }

InitValidate ==
    /\ pc = "validate"
    /\ arg \in {a \in ValidateInputs :
                  Asked(validatePSet(a.format, a.pset, a.script), a.script)}
    /\ ret = <<>>
    /\ Idle

Validate ==
    /\ pc = "validate"
    /\ ret' = validatePSet(arg.format, arg.pset, arg.script)
    /\ pc' = "validated"
    /\ UNCHANGED <<arg, importerVars>>

NextValidate == Validate

SpecValidate == InitValidate /\ [][NextValidate]_vars

-----------------------------------------------------------------------------
(* The inputs of a run: what the two remote sources may hold *)

MaxEntries == 2
MaxSets == 1
MaxUsage == 2

\* The identities and the formats a generation's documents may name
SpeciesOf(num) ==
    CASE num \in {1, 2, 3, 6} -> {"Charizard"}
      [] num = 4 -> {"Arceus"}
      [] num = 5 -> {"Keldeo", "Keldeo-Resolute"}
      [] num = 8 -> {"Zacian-Crowned"}
      [] OTHER -> {"Landorus-Therian"}

SuffixesOf(num) ==
    CASE num = 1 -> {OU, CAP}
      [] num \in {4, 8} -> {OU, UBERS}
      [] num = 9 -> {OU, ALMOSTANYABILITY, LC}
      [] OTHER -> {OU}

\* The curated sets an identity may list, by label
CuratedSets(specieName) ==
    CASE specieName = "Landorus-Therian" ->
           ("Choice Scarf" :>
               [moves |-> <<Scalar("Earthquake")>>, level |-> Absent,
                ability |-> Absent, item |-> Scalar("Choice Scarf"),
                nature |-> Absent, teratypes |-> Absent, evs |-> Absent,
                ivs |-> Absent])
           @@ ("Defensive" :>
               [moves |-> <<Array(<<"Earthquake", "Stealth Rock">>),
                            Scalar("Hidden Power Ice")>>,
                level |-> Absent, ability |-> Scalar("Intimidate"),
                item |-> Array(<<"Leftovers", "Rocky Helmet">>),
                nature |-> Array(<<"Impish">>), teratypes |-> Scalar("Water"),
                evs |-> Scalar(("hp" :> 252) @@ ("def" :> 252) @@ ("spe" :> 4)),
                ivs |-> Absent])
      [] specieName \in {"Keldeo", "Keldeo-Resolute"} ->
           ("Specs" :>
               [moves |-> <<Scalar("Hidden Power Fire")>>, level |-> Absent,
                ability |-> Absent, item |-> Array(<<"Choice Specs">>),
                nature |-> Scalar("Timid"), teratypes |-> Absent,
                evs |-> Array(<<("spa" :> 252) @@ ("spe" :> 252)>>),
                ivs |-> Absent])
      [] specieName = "Charizard" ->
           ("Dragon Dance" :>
               [moves |-> <<Scalar("Hidden Power Ice")>>, level |-> Absent,
                ability |-> Array(<<"Blaze">>), item |-> Scalar("Charizardite X"),
                nature |-> Absent, teratypes |-> Absent, evs |-> Absent,
                ivs |-> Absent])
      [] specieName = "Zacian-Crowned" ->
           ("Sweeper" :>
               [moves |-> <<Scalar("Behemoth Blade")>>, level |-> Absent,
                ability |-> Absent, item |-> Scalar("Rusted Sword"),
                nature |-> Absent, teratypes |-> Absent, evs |-> Absent,
                ivs |-> Absent])
      [] OTHER ->
           ("Swords Dance" :>
               [moves |-> <<Scalar("Earthquake")>>, level |-> Scalar(100),
                ability |-> Absent, item |-> Absent, nature |-> Absent,
                teratypes |-> Absent, evs |-> Absent, ivs |-> Absent])

\* The usage bucket of an identity (its weight apart)
UsageBucket(specieName) ==
    [abilities |-> <<[key |-> "Nothing", w |-> 1], [key |-> "Blaze", w |-> 1]>>,
     items |-> IF specieName = "Charizard"
               THEN <<[key |-> "Leftovers", w |-> 1],
                      [key |-> "Charizardite X", w |-> 2]>>
               ELSE <<[key |-> "Leftovers", w |-> 2],
                      [key |-> "Choice Scarf", w |-> 2]>>,
     spreads |-> <<[key |-> "Serious:0/0/0/0/0/0", w |-> 1],
                   [key |-> "Jolly:0/252/0/0/4/252", w |-> 2]>>,
     moves |-> <<[key |-> "Nothing", w |-> 3], [key |-> "Earthquake", w |-> 2],
                 [key |-> "Hidden Power Ice", w |-> 3]>>]

UsageWeights == {0, 2, 4, 9990}
BattleCounts == {50, 99, 100, 399, 400, 10000}

-----------------------------------------------------------------------------
(* importGen and the batch driver *)

\* if (!calcSets[specieName]) calcSets[specieName] = {};
\* calcSets[specieName][setName] = calcSet
Store(map, specieName, setName, calcSet) ==
    IF specieName \in DOMAIN map
    THEN [map EXCEPT ![specieName] = (setName :> calcSet) @@ @]
    ELSE (specieName :> (setName :> calcSet)) @@ map

\* if (!statsIgnore[specieName]) statsIgnore[specieName] = new Set();
\* statsIgnore[specieName].add(formatID)
AddIgnore(ignore, specieName, formatID) ==
    IF specieName \in DOMAIN ignore
    THEN [ignore EXCEPT ![specieName] = @ \cup {formatID}]
    ELSE (specieName :> {formatID}) @@ ignore

IsIgnoredWrongKey(ignore, specieName, formatID) ==
    formatID \in DOMAIN ignore /\ specieName \in ignore[formatID]

\* statsIgnore[specieName]?.has(formatID)
IsIgnored(ignore, specieName, formatID) ==
    specieName \in DOMAIN ignore /\ formatID \in ignore[specieName]

\* formatIDs.add(formatID)
SetAdd(ids, formatID) ==
    IF formatID \in Range(ids) THEN ids ELSE Append(ids, formatID)

\* The provenance of a stored entry: the pass and the format it comes from,
\* whether the engine was asked and its last answer (with the record's name
\* when that answer was not "valid"), and, of a curated set, whether it gave
\* no effort values, its first item alternative, and whether the 0-EV
\* correction was applied.
Prov(src, formatID, checked, verdict, dset) ==
    LET answer == IF checked THEN verdict.answers[Len(verdict.answers)] ELSE <<>>
    IN  [src |-> src, format |-> formatID, checked |-> checked,
         answer |-> answer,
         name |-> IF answer = <<>> THEN "" ELSE verdict.pset.name,
         evsCorrected |-> "evs" \in Range(verdict.corrections),
         noEvs |-> dset # <<>> /\ first(dset[1].evs) = Undefined,
         item |-> IF dset = <<>> THEN <<>> ELSE first(dset[1].item)]

\* History of one importGen call: the outcome of the curated fetch, the
\* (identity, format) pairs each pass stored, the formats whose statistics
\* were asked for and those whose fetch failed, the provenance of each entry.
NoHist ==
    [fetch |-> "none", curated |-> {}, usage |-> {}, fetched |-> {},
     skipped |-> {}, prov |-> EmptyMap]

\* A fresh importGen call for generation num
Call(num) ==
    /\ genNum' = num
    /\ pc' = "fetchDexSets"
    /\ calcSets' = EmptyMap
    /\ formatIDs' = <<>>
    /\ statsIgnore' = EmptyMap
    /\ dexSets' = <<>> /\ sets' = <<>> /\ cur' = <<>>
    /\ todo' = <<>> /\ stats' = <<>>
    /\ hist' = NoHist

Init ==
    /\ genNum = 1 /\ written = {} /\ pc = "fetchDexSets"
    /\ calcSets = EmptyMap /\ formatIDs = <<>> /\ statsIgnore = EmptyMap
    /\ dexSets = <<>> /\ sets = <<>> /\ cur = <<>> /\ todo = <<>>
    /\ stats = <<>> /\ hist = NoHist
    /\ arg = <<>> /\ ret = <<>>

\* await fetchDexSets(gen.num): it throws, reports 404 ({}), or gives a document
FetchDexSets ==
    /\ pc = "fetchDexSets"
    /\ \E outcome \in {"throw", "404", "data"} :
          /\ pc' = IF outcome = "throw" THEN "failed"
                   ELSE IF outcome = "404" THEN "stats" ELSE "curated"
          /\ hist' = [hist EXCEPT !.fetch = outcome]
    /\ UNCHANGED <<arg, ret, genNum, written, dexSets, sets, cur, calcSets,
                   formatIDs, statsIgnore, todo, stats>>

\* One (specie, format) entry of the document: lines 350-359
CuratedFormat ==
    /\ pc = "curated"
    /\ Len(dexSets) < MaxEntries
    /\ \E specieName \in SpeciesOf(genNum), suffix \in SuffixesOf(genNum) :
          LET formatID == FormatID(genNum, suffix)
              format == FormatOf(formatID)
          IN  /\ \A i \in 1..Len(dexSets) :
                    /\ dexSets[i] # [specie |-> specieName, suffix |-> suffix]
                    /\ dexSets[i].specie = specieName =>
                           dexSets[Len(dexSets)].specie = specieName
              /\ dexSets' = Append(dexSets, [specie |-> specieName, suffix |-> suffix])
              /\ IF SkipsFormat(format)
                 THEN UNCHANGED <<formatIDs, cur, pc>>
                 ELSE /\ formatIDs' = SetAdd(formatIDs, formatID)
                      /\ cur' = [specieName |-> specieName, formatID |-> formatID]
                      /\ pc' = "sets"
    /\ UNCHANGED <<arg, ret, genNum, written, sets, calcSets, statsIgnore,
                   todo, stats, hist>>

\* statsIgnore[forme].add(formatID) for each forme of copyTo: lines 374-375
RECURSIVE IgnoreAll(_, _, _, _)
IgnoreAll(ignore, formes, i, formatID) ==
    IF i > Len(formes) THEN ignore
    ELSE IgnoreAll(AddIgnore(ignore, formes[i], formatID), formes, i + 1, formatID)

\* A forme's copy of a curated set: lines 377-382
DexCopy(forme, calcSet) ==
    IF IncludesMega(forme)
    THEN [calcSet EXCEPT !.ability = getSpecie(forme).abilities0]
    ELSE calcSet

\* calcSets[forme][setName] = ... for each forme of copyTo: lines 373-383
RECURSIVE CopyDex(_, _, _, _, _)
CopyDex(map, formes, i, setName, calcSet) ==
    IF i > Len(formes) THEN map
    ELSE CopyDex(Store(map, formes[i], setName, DexCopy(formes[i], calcSet)),
                 formes, i + 1, setName, calcSet)

\* Lines 365-384: the set is stored under its identity and under its formes
StoreDex(specieName, formatID, checked, verdict, dset, setName, calcSet, copyTo) ==
    /\ calcSets' = CopyDex(Store(calcSets, specieName, setName, calcSet),
                           copyTo, 1, setName, calcSet)
    /\ statsIgnore' = IgnoreAll(AddIgnore(statsIgnore, specieName, formatID),
                                copyTo, 1, formatID)
    /\ hist' = [hist EXCEPT
          !.curated = @ \cup {<<t, formatID>> : t \in {specieName} \cup Range(copyTo)},
          !.prov = [k \in {<<t, setName>> : t \in {specieName} \cup Range(copyTo)}
                       |-> Prov("dex", formatID, checked, verdict, <<dset>>)] @@ @]

\* Lines 362-370: a rejected set is skipped, an accepted one converted
CheckedDex(name, script, dset, specie, formatID, format, verdict) ==
    /\ IF format # <<>> THEN Asked(verdict, script) ELSE Len(script) = 1
    /\ IF ~verdict.ok
       THEN UNCHANGED <<calcSets, statsIgnore, hist>>
       ELSE StoreDex(cur.specieName, formatID, format # <<>>, verdict, dset,
                     SetName(FormatNameOf(formatID), name),
                     psetToCalcSet(genNum, verdict.pset),
                     similarFormes(verdict.pset, format, specie,
                                   getItem(verdict.pset.item)))

\* Lines 361-362: the set is built and, if the format is known, validated
BuiltDex(name, script, dset, specie, formatID, format) ==
    CheckedDex(name, script, dset, specie, formatID, format,
               IF format # <<>>
               THEN validatePSet(format[1], dexToPset(genNum, specie, dset), script)
               ELSE Verdict(TRUE, dexToPset(genNum, specie, dset), <<>>, <<>>))

\* One set of the entry: lines 360-385
CuratedSet ==
    /\ pc = "sets"
    /\ Len(sets) < MaxSets
    /\ \E name \in DOMAIN CuratedSets(cur.specieName) \ Range(sets),
          script \in AskedScripts :
          /\ sets' = Append(sets, name)
          /\ BuiltDex(name, script, CuratedSets(cur.specieName)[name],
                      getSpecie(cur.specieName), cur.formatID,
                      FormatOf(cur.formatID))
    /\ UNCHANGED <<arg, ret, genNum, written, dexSets, cur, formatIDs, todo,
                   stats, pc>>

\* The entry lists no further set
SetsDone ==
    /\ pc = "sets"
    /\ pc' = "curated"
    /\ sets' = <<>>
    /\ cur' = <<>>
    /\ UNCHANGED <<arg, ret, genNum, written, dexSets, calcSets,
                   formatIDs, statsIgnore, todo, stats, hist>>

\* The document lists no further entry: the loop over formatIDs starts
CuratedDone ==
    /\ pc = "curated"
    /\ pc' = "stats"
    /\ todo' = formatIDs
    /\ UNCHANGED <<arg, ret, genNum, written, dexSets, sets, cur, calcSets,
                   formatIDs, statsIgnore, stats, hist>>

fetchStatsUncaught(outcome) == outcome

\* try { stats = await fetchStats(formatID) } catch (err) {} : false or a page
fetchStats(outcome) == IF outcome = "throw" THEN "notfound" ELSE outcome

\* The next format of formatIDs: lines 388-404
StatsFetch ==
    /\ pc = "stats"
    /\ todo # <<>>
    /\ LET formatID == Head(todo)
           format == FormatOf(formatID)
       IN  IF SkipsFormat(format)
           THEN /\ todo' = Tail(todo)
                /\ UNCHANGED <<pc, stats, cur, hist>>
           ELSE \E outcome \in {"throw", "notfound", "page"}, battles \in BattleCounts :
                   /\ hist' = [hist EXCEPT
                         !.fetched = @ \cup {formatID},
                         !.skipped = IF outcome = "page" THEN @
                                     ELSE @ \cup {formatID}]
                   /\ CASE fetchStats(outcome) = "notfound" ->
                              /\ todo' = Tail(todo)
                              /\ UNCHANGED <<pc, stats, cur>>
                        [] fetchStats(outcome) = "page" ->
                              /\ stats' = [battles |-> battles, seen |-> {}]
                              /\ cur' = [formatID |-> formatID,
                                         threshold |-> getUsageThreshold(formatID, battles),
                                         weighted |-> 0]
                              /\ pc' = "usage"
                              /\ UNCHANGED todo
                        [] OTHER ->
                              /\ pc' = "failed"
                              /\ UNCHANGED <<todo, stats, cur>>
    /\ UNCHANGED <<arg, ret, genNum, written, dexSets, sets, calcSets,
                   formatIDs, statsIgnore>>

\* A forme's copy of a usage record: lines 425-430
UsageCopy(forme, calcSet, item) ==
    IF item.megaEvolves # "" /\ item.megaStone # ""
    THEN [calcSet EXCEPT !.ability = getSpecie(forme).abilities0]
    ELSE calcSet

\* The copies of a usage record: lines 419-432
RECURSIVE CopyUsage(_, _, _, _, _, _, _)
CopyUsage(map, formes, i, formatID, setName, calcSet, item) ==
    IF i > Len(formes) THEN map
    ELSE CopyUsage(IF IsIgnored(statsIgnore, formes[i], formatID) THEN map
                   ELSE Store(map, formes[i], setName,
                              UsageCopy(formes[i], calcSet, item)),
                   formes, i + 1, formatID, setName, calcSet, item)

\* The formes of copyTo a usage record is copied to
CopiedTo(copyTo, formatID) ==
    {f \in Range(copyTo) : ~IsIgnored(statsIgnore, f, formatID)}

\* Lines 414-432: the record is stored under its identity and under its formes
StoreUsage(specieName, formatID, checked, verdict, setName, calcSet, item, copyTo) ==
    /\ calcSets' = CopyUsage(Store(calcSets, specieName, setName, calcSet),
                             copyTo, 1, formatID, setName, calcSet, item)
    /\ hist' = [hist EXCEPT
          !.usage = @ \cup {<<t, formatID>> :
                               t \in {specieName} \cup CopiedTo(copyTo, formatID)},
          !.prov = [k \in {<<t, setName>> :
                               t \in {specieName} \cup CopiedTo(copyTo, formatID)}
                       |-> Prov("stats", formatID, checked, verdict, <<>>)] @@ @]

\* Lines 412-418: a rejected record is skipped, an accepted one converted
CheckedUsage(specieName, script, specie, formatID, format, verdict) ==
    /\ IF format # <<>> THEN Asked(verdict, script) ELSE Len(script) = 1
    /\ IF ~verdict.ok
       THEN UNCHANGED <<calcSets, hist>>
       ELSE StoreUsage(specieName, formatID, format # <<>>, verdict,
                       SetName(FormatNameOf(formatID), "Showdown Usage"),
                       psetToCalcSet(genNum, verdict.pset),
                       getItem(verdict.pset.item),
                       similarFormes(verdict.pset, format, specie,
                                     getItem(verdict.pset.item)))

\* Lines 410-412: the record is built and, if the format is known, validated
BuiltUsage(specieName, script, specie, formatID, format) ==
    CheckedUsage(specieName, script, specie, formatID, format,
                 IF format # <<>>
                 THEN validatePSet(format[1],
                                   usageToPset(genNum, formatID, specie.name,
                                               UsageBucket(specieName)),
                                   script)
                 ELSE Verdict(TRUE,
                              usageToPset(genNum, formatID, specie.name,
                                          UsageBucket(specieName)),
                              <<>>, <<>>))

\* One identity of the page: lines 405-433
UsageRecord ==
    /\ pc = "usage"
    /\ Cardinality(stats.seen) < MaxUsage
    /\ \E specieName \in SpeciesOf(genNum) \ stats.seen, weighted \in UsageWeights :
          /\ stats' = [stats EXCEPT !.seen = @ \cup {specieName}]
          /\ cur' = [cur EXCEPT !.weighted = weighted]
          /\ IF \/ IsIgnored(statsIgnore, specieName, cur.formatID)
                \/ weighted < cur.threshold
             THEN UNCHANGED <<calcSets, hist>>
             ELSE \E script \in AskedScripts :
                     BuiltUsage(specieName, script, getSpecie(specieName),
                                cur.formatID, FormatOf(cur.formatID))
    /\ UNCHANGED <<arg, ret, genNum, written, dexSets, sets, formatIDs,
                   statsIgnore, todo, pc>>

\* The page lists no further identity
UsageDone ==
    /\ pc = "usage"
    /\ pc' = "stats"
    /\ todo' = Tail(todo)
    /\ stats' = <<>>
    /\ cur' = <<>>
    /\ UNCHANGED <<arg, ret, genNum, written, dexSets, sets, calcSets,
                   formatIDs, statsIgnore, hist>>

\* return calcSets
Return ==
    /\ pc = "stats"
    /\ todo = <<>>
    /\ pc' = "write"
    /\ UNCHANGED <<arg, ret, genNum, written, dexSets, sets, cur, calcSets,
                   formatIDs, statsIgnore, todo, stats, hist>>

\* The batch driver writes the artifact and imports the next generation
WriteArtifact ==
    /\ pc = "write"
    /\ written' = written \cup {genNum}
    /\ IF genNum < LastGen
       THEN Call(genNum + 1)
       ELSE /\ pc' = "exit"
            /\ UNCHANGED <<genNum, dexSets, sets, cur, calcSets, formatIDs,
                           statsIgnore, todo, stats, hist>>
    /\ UNCHANGED <<arg, ret>>

Next ==
    \/ FetchDexSets
    \/ CuratedFormat
    \/ CuratedSet
    \/ SetsDone
    \/ CuratedDone
    \/ StatsFetch
    \/ UsageRecord
    \/ UsageDone
    \/ Return
    \/ WriteArtifact

Spec == Init /\ [][Next]_vars

-----------------------------------------------------------------------------
(* Properties of the pure functions *)

\* C6: for a non-empty map, top(map, 1) returns a key of the map whose weight
\* is the maximum, the earliest-enumerated of the keys of maximum weight, and
\* the map is left as it was.
C6_Top1EarliestMaximum ==
    (pc = "topped" /\ ret.n = 1 /\ arg # <<>>) =>
        /\ ret.out.kind = "string"
        /\ ret.out.v # Undefined
        /\ \E i \in 1..Len(arg) :
              /\ arg[i].key = ret.out.v[1]
              /\ \A j \in 1..Len(arg) : arg[j].w <= arg[i].w
              /\ \A j \in 1..(i - 1) : arg[j].w < arg[i].w

AllFour(ivs, v) ==
    /\ DOMAIN ivs = {"atk", "def", "spe", "spa"}
    /\ \A s \in DOMAIN ivs : ivs[s] = v

\* The four halved source values of a table, absent entries read as 31
HalvedSources(ivs) ==
    [s \in {"atk", "def", "spe", "spa"} |->
        (IF s \in DOMAIN ivs THEN ivs[s] ELSE 31) \div 2]

\* C5 as stated: the table atk = def = spe = spa = 30 derives HP 0, and a
\* table whose four halved source values are all odd derives HP 30.
C5_AllThirtyDerivesZero ==
    (pc = "hpDone" /\ ret.fn = "expectedHP") =>
        /\ AllFour(arg.ivs, 30) => ret.hp = 0
        /\ (\A s \in {"atk", "def", "spe", "spa"} :
               HalvedSources(arg.ivs)[s] % 2 = 1) => ret.hp = 30

\* C5 amended: the table atk = def = spe = spa = 30 derives HP 30 (its halved
\* values, 15, are odd); a table whose four halved source values are all odd
\* derives HP 30 and one whose four halved values are all even derives HP 0;
\* the era-2 branch of dexToPset stores that derived value as the HP entry.
C5_HalvedParityDerivesHP ==
    /\ (pc = "hpDone" /\ ret.fn = "expectedHP") =>
        /\ AllFour(arg.ivs, 30) => ret.hp = 30
        /\ (\A s \in {"atk", "def", "spe", "spa"} :
               HalvedSources(arg.ivs)[s] % 2 = 1) => ret.hp = 30
        /\ (\A s \in {"atk", "def", "spe", "spa"} :
               HalvedSources(arg.ivs)[s] % 2 = 0) => ret.hp = 0
    /\ (pc = "hpDone" /\ ret.fn = "dexToPset") =>
        /\ (\A s \in {"atk", "def", "spe", "spa"} :
               HalvedSources(ret.pset.ivs)[s] % 2 = 1) => ret.pset.ivs["hp"] = 30
        /\ first(arg.dset.moves[1]) = <<"Hidden Power Ice">> =>
               ret.pset.ivs["def"] = 26 /\ ret.pset.ivs["hp"] = 30
        /\ first(arg.dset.moves[1]) = <<"Hidden Power Fire">> =>
               ret.pset.ivs["atk"] = 28 /\ ret.pset.ivs["hp"] = 6

\* expectedHP was applied to the table of four 30s
C5_Witness ==
    /\ pc = "hpDone" /\ ret.fn = "expectedHP"
    /\ AllFour(arg.ivs, 30) /\ ret.hp = 30

\* C4: when validatePSet returns, the record's ability is the one it had on
\* entry, whatever the engine wrote to it on any of its invocations.
C4_AbilityUnchanged ==
    pc = "validated" => ret.pset.ability = arg.pset.ability

ExactlyOneViolationWith(invalid, fragment) ==
    Len(invalid) = 1 /\ fragment \in Range(invalid[1])

\* C9 as stated: at most one correction is applied and the engine is invoked
\* at most twice; the HP effort value is set to 1 only when the engine's first
\* answer was exactly one violation containing 'has exactly 0 EVs', and never
\* after a 'must be shiny' correction in the same call.
C9_CorrectionsExclusive ==
    pc = "validated" =>
        /\ Len(ret.corrections) <= 1
        /\ Len(ret.answers) <= 2
        /\ ret.pset.evs["hp"] # arg.pset.evs["hp"] =>
              /\ ExactlyOneViolationWith(ret.answers[1], ZERO_EVS)
              /\ "shiny" \notin Range(ret.corrections)

\* C9 amended: the corrections are tried in sequence, shiny first: each is
\* applied at most once, the engine is invoked once plus once per correction
\* applied (at most three times), and the HP effort value is set to 1 only
\* when the engine's latest answer (the first one, or the one after the shiny
\* retry) was exactly one violation containing 'has exactly 0 EVs'; the shiny
\* correction is applied only when the first answer was exactly one violation
\* containing 'must be shiny'.
C9_CorrectionsInSequence ==
    pc = "validated" =>
        /\ ret.corrections \in {<<>>, <<"shiny">>, <<"evs">>, <<"shiny", "evs">>}
        /\ Len(ret.answers) = 1 + Len(ret.corrections)
        /\ "shiny" \in Range(ret.corrections) =>
              /\ ExactlyOneViolationWith(ret.answers[1], MUST_BE_SHINY)
              /\ ret.pset.shiny
        /\ "evs" \in Range(ret.corrections) =>
              ExactlyOneViolationWith(ret.answers[Len(ret.corrections)], ZERO_EVS)
        /\ ret.pset.evs["hp"] # arg.pset.evs["hp"] =>
              "evs" \in Range(ret.corrections) /\ ret.pset.evs["hp"] = 1

\* Both corrections were applied in one call, which asked the engine thrice
C9_Witness ==
    /\ pc = "validated"
    /\ ret.corrections = <<"shiny", "evs">>
    /\ Len(ret.answers) = 3
    /\ ret.pset.evs["hp"] = 1 /\ ret.pset.shiny /\ ret.ok

-----------------------------------------------------------------------------
(* Properties of importGen *)

\* The label of a format's usage entry
UsageName(formatID) == SetName(FormatNameOf(formatID), "Showdown Usage")

\* The labels the curated sets carry
Labels ==
    UNION {DOMAIN CuratedSets(s) : s \in UNION {SpeciesOf(g) : g \in 1..LastGen}}

\* The entries of the map, as (identity, label) pairs
Entries == UNION {{<<x, n>> : n \in DOMAIN calcSets[x]} : x \in DOMAIN calcSets}

HasCurated(x, formatID) ==
    /\ x \in DOMAIN calcSets
    /\ \E name \in Labels :
          SetName(FormatNameOf(formatID), name) \in DOMAIN calcSets[x]

HasUsage(x, formatID) ==
    x \in DOMAIN calcSets /\ UsageName(formatID) \in DOMAIN calcSets[x]

\* C1: if the curated pass stored a record for identity X in format F, directly
\* or as a propagated copy, the map never holds the entry "<F> Showdown Usage"
\* under X, and the usage pass never writes X in F, whatever X's weight.
C1_CoveredNeverUsage ==
    /\ hist.curated \cap hist.usage = {}
    /\ \A formatID \in Range(formatIDs) : \A x \in DOMAIN calcSets :
          HasCurated(x, formatID) => ~HasUsage(x, formatID)

\* The usage pass met an identity the curated pass covered in this format,
\* with a weight that reaches the threshold
C1_Witness ==
    /\ pc = "usage"
    /\ cur.weighted >= cur.threshold
    /\ \E x \in stats.seen :
          /\ stats.seen = {x}
          /\ <<x, cur.formatID>> \in hist.curated
          /\ HasCurated(x, cur.formatID)

\* C2 as stated: every stored record was reported valid by the engine on its
\* last invocation, or belongs to a format of the unsupported list; none whose
\* last answer was a non-empty violation list is stored.
C2_LastAnswerValid ==
    /\ DOMAIN hist.prov = Entries
    /\ \A e \in DOMAIN hist.prov :
          IF hist.prov[e].checked
          THEN hist.prov[e].answer = <<>>
          ELSE hist.prov[e].format \in DOMAIN UNSUPPORTED

\* C2 amended: every stored record was reported valid by the engine on its
\* last invocation, or belongs to a format of the unsupported list, or is a
\* gen4ubers record whose last answer contains "<name> is banned.".
C2_LastAnswerValidOrAllowedBan ==
    /\ DOMAIN hist.prov = Entries
    /\ \A e \in DOMAIN hist.prov :
          IF hist.prov[e].checked
          THEN \/ hist.prov[e].answer = <<>>
               \/ /\ hist.prov[e].format = GEN4UBERS
                  /\ BannedMessage(hist.prov[e].name) \in Range(hist.prov[e].answer)
          ELSE hist.prov[e].format \in DOMAIN UNSUPPORTED

\* A record the engine rejected last is in the map
C2_Witness ==
    \E e \in DOMAIN hist.prov \cap Entries :
       hist.prov[e].checked /\ hist.prov[e].answer # <<>>

\* C3: a statistics fetch that throws or finds no page only skips its format:
\* the map is left as it is and the loop goes on to the next format, so
\* importGen fails only when the curated fetch threw; when that fetch threw
\* importGen fails, and no artifact is written for the generation. An
\* artifact is written only of a map importGen returned.
C3_FetchErrorAsymmetry ==
    /\ [](pc = "failed" => hist.fetch = "throw" /\ genNum \notin written)
    /\ [](hist.fetch = "throw" => pc = "failed")
    /\ [][hist'.skipped \ hist.skipped # {} =>
            calcSets' = calcSets /\ pc' = "stats" /\ todo' = Tail(todo)]_vars
    /\ [][written' # written => pc = "write" /\ written' = written \cup {genNum}]_vars

\* importGen returned a map with entries although the statistics fetch of a
\* format failed, and a later format's page was processed
C3_Witness ==
    /\ pc = "write"
    /\ DOMAIN calcSets # {}
    /\ \E f \in hist.skipped : \E g \in hist.usage :
          IndexOf(formatIDs, f) < IndexOf(formatIDs, g[2])

\* C7 as stated: from generation 3 on, a stored curated set that gave no
\* effort values has a CalcSet with an empty effort table and with the set's
\* first item alternative as item.
C7_NoEvsEmptyTable ==
    \A e \in DOMAIN hist.prov \cap Entries :
       (genNum >= 3 /\ hist.prov[e].src = "dex" /\ hist.prov[e].noEvs) =>
          /\ calcSets[e[1]][e[2]].evs = EmptyTable
          /\ calcSets[e[1]][e[2]].item = OrElse(hist.prov[e].item, "")

\* C7 amended: from generation 3 on, a stored curated set that gave no effort
\* values has a CalcSet whose effort table is empty, or has the single entry
\* hp = 1 when validation applied the 0-EV correction, and whose item is the
\* set's first item alternative.
C7_NoEvsEmptyTableOrHpOne ==
    \A e \in DOMAIN hist.prov \cap Entries :
       (genNum >= 3 /\ hist.prov[e].src = "dex" /\ hist.prov[e].noEvs) =>
          /\ calcSets[e[1]][e[2]].evs =
                IF hist.prov[e].evsCorrected THEN ("hp" :> 1) ELSE EmptyTable
          /\ calcSets[e[1]][e[2]].item = OrElse(hist.prov[e].item, "")

\* A curated set without effort values is stored after the 0-EV correction
C7_Witness ==
    \E e \in DOMAIN hist.prov \cap Entries :
       /\ genNum >= 3 /\ hist.prov[e].src = "dex" /\ hist.prov[e].noEvs
       /\ hist.prov[e].evsCorrected
       /\ hist.prov[e].item = <<"Choice Scarf">>

\* formatID contains 'uber', 'anythinggoes' or 'doublesou'
LowerQuality(formatID) ==
    \E pat \in {UBER, ANYTHINGGOES, DOUBLESOU} : Contains(formatID, pat)

\* C8: the threshold of a page is infinite under 100 battles, 0.05 under 400,
\* else 0.03 for a format whose id contains 'uber', 'anythinggoes' or
\* 'doublesou' and 0.01 for the others; the usage pass stores a record only
\* of an identity whose weight is not below it, so a page of fewer than 100
\* battles contributes no usage entry.
C8_ThresholdGatesUsage ==
    /\ [](pc = "usage" =>
            /\ stats.battles < 100 => cur.threshold = Infinity
            /\ (100 <= stats.battles /\ stats.battles < 400) => cur.threshold = 5
            /\ (400 <= stats.battles /\ LowerQuality(cur.formatID)) => cur.threshold = 3
            /\ (400 <= stats.battles /\ ~LowerQuality(cur.formatID)) => cur.threshold = 1)
    /\ [](pc = "usage" /\ stats.battles < 100 =>
            /\ \A x \in DOMAIN calcSets : ~HasUsage(x, cur.formatID)
            /\ \A u \in hist.usage : u[2] # cur.formatID)
    /\ [][(pc = "usage" /\ pc' = "usage"
           /\ (calcSets' # calcSets \/ hist'.usage # hist.usage)) =>
             cur'.weighted >= cur.threshold]_vars

\* A page of fewer than 100 battles listed an identity of weight 99.9 that
\* the curated pass had not covered
C8_Witness ==
    /\ pc = "usage"
    /\ stats.battles < 100
    /\ cur.weighted = 9990
    /\ stats.seen # {}
    /\ \A x \in stats.seen : <<x, cur.formatID>> \notin hist.curated

\* C10 as stated: a statistics page is fetched for a format, and usage entries
\* are stored for it, only if the curated pass stored a record of the format.
C10_FetchedOnlyIfStored ==
    /\ \A formatID \in hist.fetched : \E c \in hist.curated : c[2] = formatID
    /\ \A u \in hist.usage : \E c \in hist.curated : c[2] = u[2]

\* C10 amended: a statistics page is fetched for a format, and usage entries
\* are stored for it, only if the curated source lists the format under some
\* identity and the format is known to the reference database or is on the
\* unsupported list.
C10_FetchedOnlyIfListed ==
    /\ \A formatID \in hist.fetched :
          /\ \E i \in 1..Len(dexSets) : FormatID(genNum, dexSets[i].suffix) = formatID
          /\ \/ formatID \in DOMAIN UNSUPPORTED
             \/ \E f \in FormatsDB : f.id = formatID
    /\ \A u \in hist.usage : u[2] \in hist.fetched \ hist.skipped

\* A usage entry is stored for a format of which no curated record was stored
C10_Witness ==
    \E u \in hist.usage : \A c \in hist.curated : c[2] # u[2]

=============================================================================
